---------------------------- MODULE Spec2Model ----------------------------
(***************************************************************************)
(* Model of the build/release helper scripts of aes-stream-drivers:        *)
(*   scripts/filter-clangdb.py  - compile-database filter                  *)
(*   scripts/run-clang-tidy.py  - static-analysis batch runner             *)
(*   scripts/uploadTag.py, uploadTag.py - release-asset uploader           *)
(* A Python str the scripts take apart is the sequence of its code points; *)
(* a Python list is a sequence.  File names, messages and positions, which *)
(* are only compared, are strings.  Each script is a sequential program    *)
(* whose position is a pc variable; an uncaught exception ends the run     *)
(* with exit status 1.                                                     *)
(***************************************************************************)
EXTENDS Integers, Sequences, FiniteSets, TLC

VARIABLES
    \* ---- filter-clangdb.py
    disk,           \* the file named by -f: [kind, db]
    input,          \* the file as it was when the run started (history)
    args_WRITE,     \* args.WRITE
    args_strip,     \* args.strip: [given |-> FALSE] is None
    clang,          \* the executable named by --clang: [launches, rc, out]
    cdb,            \* the loaded compile database
    supportedargs,  \* list parsed from the help text
    cmdIdx,         \* position of "for command in cdb"
    fstdout,        \* what the filter printed, in order
    fpc,            \* position of the filter script
    fexc,           \* uncaught exception of the filter run, "" if none
    fexit,          \* exit status of the filter run, -1 while running
    frun,           \* 1 for the first run, 2 for a run over its own output
    firstOut,       \* the database the first run produced (history)
    \* ---- run-clang-tidy.py
    tdb,            \* compile_commands.json of the working directory: [kind, db]
    cmdLaunches,    \* the command named by -e can be launched
    db,             \* the loaded database
    tIdx,           \* position of "for o in db"
    fail,           \* the failure flag
    tlog,           \* progress lines and invocations, in order
    tpc,            \* position of main()
    texc,           \* exception main() did not catch, "" if none
    texit,          \* exit status, -1 while running
    \* ---- uploadTag.py (both variants)
    variant,        \* "scripts" for scripts/uploadTag.py, "root" for uploadTag.py
    uargs,          \* [repo, tag, file]
    token,          \* the token environment variable: [set, value]
    upc,            \* position of the uploader
    calls,          \* network calls attempted, in order: [op, ok]
    assets,         \* assets attached to releases on the remote
    ustdout,        \* lines printed on stdout
    ustderr,        \* messages printed on stderr by sys.exit(str)
    unhandled,      \* an exception escaped the script
    uexit           \* exit status, -1 while running

fvars == <<disk, input, args_WRITE, args_strip, clang, cdb, supportedargs,
           cmdIdx, fstdout, fpc, fexc, fexit, frun, firstOut>>
tvars == <<tdb, cmdLaunches, db, tIdx, fail, tlog, tpc, texc, texit>>
uvars == <<variant, uargs, token, upc, calls, assets, ustdout, ustderr,
           unhandled, uexit>>
vars  == <<fvars, tvars, uvars>>

\* Largest number of arguments of a generated compile-command record.
MaxArgs == 2
\* Largest number of records of the batch runner's database.
MaxFiles == 3

BoundedSeq(S, n) == UNION {[1..k -> S] : k \in 0..n}

(***************************************************************************)
(* Python str operations used by the scripts.                              *)
(***************************************************************************)
\* A character is its code point (ord): 45 is '-', 61 is '=', 32 is ' '.
\* Characters str.split() and the regex class \s treat as whitespace on str:
\* \t \n \v \f \r, 0x1c-0x1f, space, 0x85, 0xa0, and the Unicode spaces
\* U+1680, U+2000-U+200A, U+2028, U+2029, U+202F, U+205F, U+3000.
Whitespace ==
    (9..13) \cup (28..32) \cup {133, 160, 5760} \cup (8192..8202) \cup
    {8232, 8233, 8239, 8287, 12288}

\* x.startswith(p)
StartsWith(x, p) == Len(x) >= Len(p) /\ SubSeq(x, 1, Len(p)) = p

\* Index of the first character of t at or after i that is not in S
\* (Len(t)+1 or more when there is none).
RECURSIVE SpanEnd(_, _, _)
SpanEnd(t, i, S) ==
    IF i > Len(t) \/ t[i] \notin S THEN i ELSE SpanEnd(t, i + 1, S)

\* Index of the first character of t at or after i that is in S.
RECURSIVE FindIn(_, _, _)
FindIn(t, i, S) ==
    IF i > Len(t) \/ t[i] \in S THEN i ELSE FindIn(t, i + 1, S)

\* x.split('=')[0]: the part of x before the first '=' (all of x without one).
SplitEqHead(x) == SubSeq(x, 1, FindIn(x, 1, {61}) - 1)

\* x.split(): the maximal runs of non-whitespace characters, in order.
RECURSIVE SplitFrom(_, _)
SplitFrom(x, i) ==
    LET b == SpanEnd(x, i, Whitespace)
        e == FindIn(x, b, Whitespace)
    IN  IF b > Len(x) THEN <<>> ELSE <<SubSeq(x, b, e - 1)>> \o SplitFrom(x, e)

Split(x) == SplitFrom(x, 1)

\* v in lst, for a Python list lst
InList(v, lst) == \E i \in 1..Len(lst) : lst[i] = v

(***************************************************************************)
(* filter-clangdb.py                                                       *)
(***************************************************************************)
\* to_strip, the built-in strip list: ['-mrecord-mcount']
S_mrecord == <<45,109,114,101,99,111,114,100,45,109,99,111,117,110,116>>
to_strip == <<S_mrecord>>

\* The character class [-A-z0-9] of the help-text pattern: '-', the digits,
\* and the range 'A' to 'z', which also spans [ \ ] ^ _ and the grave accent.
FlagChars == {45} \cup (48..57) \cup (65..122)

\* re.findall(r'\n\s+(-[-A-z0-9]+)(\s?)', allargs), first group of each match:
\* a newline, a maximal run of whitespace, then '-' and a maximal run of flag
\* characters; one following whitespace character is consumed by the match.
RECURSIVE FindFlags(_, _)
FindFlags(t, i) ==
    IF i > Len(t) THEN <<>>
    ELSE LET ws   == SpanEnd(t, i + 1, Whitespace)
             fl   == SpanEnd(t, ws + 1, FlagChars)
             hit  == /\ t[i] = 10
                     /\ ws > i + 1
                     /\ ws <= Len(t)
                     /\ t[ws] = 45
                     /\ fl > ws + 1
             stop == IF fl <= Len(t) /\ t[fl] \in Whitespace THEN fl + 1 ELSE fl
         IN  IF hit THEN <<SubSeq(t, ws, fl - 1)>> \o FindFlags(t, stop)
                    ELSE FindFlags(t, i + 1)

\* [x[0].strip() for x in re.findall(...)]: the groups hold no whitespace.
ParseSupported(allargs) == FindFlags(allargs, 1)

\* is_special_arg with the '-U' test forgotten.
is_special_arg_noU(x) ==
    StartsWith(x, <<45,73>>) \/ StartsWith(x, <<45,68>>)

is_special_arg(x) ==
    \/ StartsWith(x, <<45,73>>)
    \/ StartsWith(x, <<45,68>>)
    \/ StartsWith(x, <<45,85>>)

\* args.strip as is_stripped reads it: None is replaced by {}.
StripList == IF args_strip.given THEN args_strip.values ELSE <<>>

\* x.split()[0] raises IndexError when x holds no non-whitespace character.
is_stripped_raises(x) == Split(x) = <<>>

is_stripped(x) ==
    LET ag == Split(x)[1]
    IN  InList(ag, StripList) \/ InList(ag, to_strip)

\* The left operand of "and" in the comprehension's condition.
Wanted(x) ==
    \/ ~StartsWith(x, <<45>>)
    \/ InList(SplitEqHead(x), supportedargs)
    \/ is_special_arg(x)

\* is_stripped is called for x (the right operand of "and" is evaluated).
CallsStripped(x) == Wanted(x)

\* The comprehension's condition, for an x on which it does not raise.
Retain(x) == Wanted(x) /\ ~is_stripped(x)

\* Filtering by deleting from the list while iterating over it: the element
\* after a deleted one is skipped.
RECURSIVE DeleteWhileIterating(_, _)
DeleteWhileIterating(arguments, i) ==
    IF i > Len(arguments) THEN arguments
    ELSE IF Retain(arguments[i])
         THEN DeleteWhileIterating(arguments, i + 1)
         ELSE DeleteWhileIterating(
                  SubSeq(arguments, 1, i - 1) \o
                  SubSeq(arguments, i + 1, Len(arguments)), i + 1)

FilterArgumentsSkipping(arguments) == DeleteWhileIterating(arguments, 1)

\* [x for x in command['arguments'] if (...) and not is_stripped(x)]
FilterArguments(arguments) == SelectSeq(arguments, Retain)

\* The comprehension raises IndexError on some element.
FilterRaises(arguments) ==
    \E i \in 1..Len(arguments) :
        CallsStripped(arguments[i]) /\ is_stripped_raises(arguments[i])

\* is_stripped runs at least once over these arguments.
FilterCallsStripped(arguments) ==
    \E i \in 1..Len(arguments) : CallsStripped(arguments[i])


\* ---- inputs of a filter run
S_cc     == <<99,99>>   \* 'cc'
S_c      == <<45,99>>   \* '-c'
S_x      == <<45,120>>   \* '-x'
S_Wfoo   == <<45,87,102,111,111>>   \* '-Wfoo'
S_Wfoo1  == <<45,87,102,111,111,61,49>>   \* '-Wfoo=1'
S_Ia     == <<45,73,97>>   \* '-Ia'
S_Ua     == <<45,85,97>>   \* '-Ua'
S_Iusr   == <<45,73,47,117,115,114,47,105,110,99,108,117,100,101>>   \* '-I/usr/include'
S_a_c    == <<97,46,99>>   \* 'a.c'
S_mrecord1 == S_mrecord \o <<61,49>>   \* '-mrecord-mcount=1'
S_sp_c   == <<32,45,99>>   \* ' -c'
S_D      == <<45,68>>   \* '-D'
S_vt     == <<11>>   \* '\v' (a vertical tab)

\* Argument strings a generated record is made of: empty, a blank only, a
\* vertical tab only, positional, flags the help text may list (one also behind a leading
\* blank), a flag it never lists, a flag with a value, include/define/undefine
\* arguments, the built-in strip flag with and without a value.
ArgPool ==
    {<<>>, <<32>>, S_vt, S_cc, S_c, S_sp_c, S_x, S_Wfoo1, S_Ia, S_D, S_Ua,
     S_mrecord, S_mrecord1}

Record(f, a) == [file |-> f, arguments |-> a]

Records == {Record("a.c", a) : a \in BoundedSeq(ArgPool, MaxArgs)}

\* The record of the specification's worked example.
ExampleRecord ==
    Record("b.c", <<S_cc, S_mrecord, S_Iusr, S_Wfoo, S_c, S_a_c>>)

\* Compile databases: empty, one generated record, a generated record
\* followed by the example record.
Databases ==
    {<<>>} \cup {<<r>> : r \in Records} \cup {<<r, ExampleRecord>> : r \in Records}

\* "clang --help" output: a heading, then one indented line per listed flag.
HelpHead == <<79,80,84,73,79,78,83,58>>   \* 'OPTIONS:'
\* '\n  ' flag '  help'
HelpLine(flag) == <<10,32,32>> \o flag \o <<32,32,104,101,108,112>>
HelpTexts ==
    { <<>>,
      HelpHead \o HelpLine(S_c) \o HelpLine(S_Wfoo),
      HelpHead \o HelpLine(S_c) \o HelpLine(S_Wfoo) \o HelpLine(S_mrecord) }

\* The compiler named by --clang: it cannot be launched, or it runs and
\* exits 0 with a help text, or it exits non-zero having printed nothing.
Compilers ==
    {[launches |-> FALSE, rc |-> 1, out |-> <<>>],
     [launches |-> TRUE,  rc |-> 1, out |-> <<>>]} \cup
    {[launches |-> TRUE, rc |-> 0, out |-> h] : h \in HelpTexts}

\* Values of args.strip: None (no --strip), or the list of --strip values.
StripArgs ==
    {[given |-> FALSE, values |-> <<>>],
     [given |-> TRUE,  values |-> <<S_Ia>>],
     [given |-> TRUE,  values |-> <<S_c>>]}

\* The input file: absent, not JSON, or a compile database.
Files ==
    {[kind |-> "absent", db |-> <<>>], [kind |-> "garbled", db |-> <<>>]} \cup
    {[kind |-> "json", db |-> d] : d \in Databases}

\* A line of the filter's standard output.
Message(text) == [kind |-> "message", text |-> text, db |-> <<>>]
Document(d)   == [kind |-> "json", text |-> "", db |-> d]

InitFilter ==
    /\ disk \in Files
    /\ input = disk
    /\ args_WRITE \in BOOLEAN
    /\ args_strip \in StripArgs
    /\ clang \in Compilers
    /\ cdb = <<>>
    /\ supportedargs = <<>>
    /\ cmdIdx = 1
    /\ fstdout = <<>>
    /\ fpc = "load"
    /\ fexc = ""
    /\ fexit = -1
    /\ frun = 1
    /\ firstOut = <<>>

\* An uncaught exception: traceback, exit status 1.
FilterRaise(e) ==
    /\ fpc' = "raised"
    /\ fexc' = e
    /\ fexit' = 1

\* Lines 34-39: the existence test only prints; open() and json.load() raise.
LoadInput ==
    /\ fpc = "load"
    /\ fstdout' = IF disk.kind = "absent"
                  THEN Append(fstdout, Message("Input file does not exist"))
                  ELSE fstdout
    /\ IF disk.kind = "absent"
       THEN FilterRaise("FileNotFoundError") /\ UNCHANGED cdb
       ELSE IF disk.kind = "garbled"
       THEN FilterRaise("JSONDecodeError") /\ UNCHANGED cdb
       ELSE /\ cdb' = disk.db
            /\ fpc' = "query"
            /\ UNCHANGED <<fexc, fexit>>
    /\ UNCHANGED <<disk, input, args_WRITE, args_strip, clang, supportedargs,
                   cmdIdx, frun, firstOut>>
    /\ UNCHANGED <<tvars, uvars>>

\* Lines 41-42: subprocess.run raises only when the program cannot be
\* launched; the return code is not looked at.
QueryClang ==
    /\ fpc = "query"
    /\ IF ~clang.launches
       THEN FilterRaise("FileNotFoundError") /\ UNCHANGED <<supportedargs, cmdIdx>>
       ELSE /\ supportedargs' = ParseSupported(clang.out)
            /\ cmdIdx' = 1
            /\ fpc' = "filter"
            /\ UNCHANGED <<fexc, fexit>>
    /\ UNCHANGED <<disk, input, args_WRITE, args_strip, clang, cdb, fstdout,
                   frun, firstOut>>
    /\ UNCHANGED <<tvars, uvars>>

\* Lines 62-63, one iteration of "for command in cdb".  The first call of
\* is_stripped replaces a None args.strip by {} (lines 56-57).
FilterCommand ==
    /\ fpc = "filter"
    /\ cmdIdx <= Len(cdb)
    /\ LET arguments == cdb[cmdIdx].arguments
       IN  /\ args_strip' = IF FilterCallsStripped(arguments) /\ ~args_strip.given
                            THEN [given |-> TRUE, values |-> <<>>]
                            ELSE args_strip
           /\ IF FilterRaises(arguments)
              THEN FilterRaise("IndexError") /\ UNCHANGED <<cdb, cmdIdx>>
              ELSE /\ cdb' = [cdb EXCEPT ![cmdIdx].arguments =
                                             FilterArguments(arguments)]
                   /\ cmdIdx' = cmdIdx + 1
                   /\ UNCHANGED <<fpc, fexc, fexit>>
    /\ UNCHANGED <<disk, input, args_WRITE, clang, supportedargs, fstdout,
                   frun, firstOut>>
    /\ UNCHANGED <<tvars, uvars>>

\* Lines 65-69, after the loop: print the database or write it over the input.
Output ==
    /\ fpc = "filter"
    /\ cmdIdx > Len(cdb)
    /\ IF ~args_WRITE
       THEN fstdout' = Append(fstdout, Document(cdb)) /\ UNCHANGED disk
       ELSE disk' = [kind |-> "json", db |-> cdb] /\ UNCHANGED fstdout
    /\ fpc' = "done"
    /\ fexit' = 0
    /\ firstOut' = IF frun = 1 THEN cdb ELSE firstOut
    /\ UNCHANGED <<input, args_WRITE, args_strip, clang, cdb, supportedargs,
                   cmdIdx, fexc, frun>>
    /\ UNCHANGED <<tvars, uvars>>

\* The script is run again, with the same options and compiler, on the
\* database it produced (the file it wrote, or its saved output).  The new
\* process parses its options afresh: without --strip, args.strip is None.
Refilter ==
    /\ fpc = "done"
    /\ frun = 1
    /\ frun' = 2
    /\ disk' = [kind |-> "json", db |-> firstOut]
    /\ cdb' = <<>>
    /\ supportedargs' = <<>>
    /\ cmdIdx' = 1
    /\ fstdout' = <<>>
    /\ fpc' = "load"
    /\ fexit' = -1
    /\ args_strip' = IF args_strip.values = <<>>
                     THEN [given |-> FALSE, values |-> <<>>]
                     ELSE args_strip
    /\ UNCHANGED <<input, args_WRITE, clang, fexc, firstOut>>
    /\ UNCHANGED <<tvars, uvars>>

NextFilter == LoadInput \/ QueryClang \/ FilterCommand \/ Output

NextRefilter == NextFilter \/ Refilter


\* The filter has not been started (another script is the one running).
FilterIdle ==
    /\ disk = [kind |-> "absent", db |-> <<>>]
    /\ input = disk
    /\ args_WRITE = FALSE
    /\ args_strip = [given |-> FALSE, values |-> <<>>]
    /\ clang = [launches |-> FALSE, rc |-> 1, out |-> <<>>]
    /\ cdb = <<>>
    /\ supportedargs = <<>>
    /\ cmdIdx = 1
    /\ fstdout = <<>>
    /\ fpc = "idle"
    /\ fexc = ""
    /\ fexit = -1
    /\ frun = 1
    /\ firstOut = <<>>

(***************************************************************************)
(* run-clang-tidy.py                                                       *)
(***************************************************************************)
FileNames == {"a.c", "b.c"}

\* Return codes of the analysis command: success, failure, killed by a signal.
ReturnCodes == {0, 1, -6}

\* compile_commands.json of the working directory: absent, not JSON, or a
\* database of records with a 'file' key.
TidyFiles ==
    {[kind |-> "absent", db |-> <<>>], [kind |-> "garbled", db |-> <<>>]} \cup
    {[kind |-> "json", db |-> d] :
        d \in BoundedSeq({[file |-> f] : f \in FileNames}, MaxFiles)}

Progress(f)   == [kind |-> "progress", file |-> f, rc |-> 0]
Invoked(f, r) == [kind |-> "run", file |-> f, rc |-> r]

InitTidy ==
    /\ tdb \in TidyFiles
    /\ cmdLaunches \in BOOLEAN
    /\ db = <<>>
    /\ tIdx = 1
    /\ fail = FALSE
    /\ tlog = <<>>
    /\ tpc = "load"
    /\ texc = ""
    /\ texit = -1

\* An exception main() does not catch: traceback, exit status 1.
TidyRaise(e) ==
    /\ tpc' = "raised"
    /\ texc' = e
    /\ texit' = 1

\* Lines 26-32: parse the options, load the database, clear the flag;
\* open() and json.load() raise on a missing or unparsable file.
TidyLoad ==
    /\ tpc = "load"
    /\ IF tdb.kind = "absent"
       THEN TidyRaise("FileNotFoundError") /\ UNCHANGED <<db, fail, tIdx>>
       ELSE IF tdb.kind = "garbled"
       THEN TidyRaise("JSONDecodeError") /\ UNCHANGED <<db, fail, tIdx>>
       ELSE /\ db' = tdb.db
            /\ fail' = FALSE
            /\ tIdx' = 1
            /\ tpc' = "loop"
            /\ UNCHANGED <<texc, texit>>
    /\ UNCHANGED <<tdb, cmdLaunches, tlog>>
    /\ UNCHANGED <<fvars, uvars>>

\* Line 34: the progress line of the next record.
PrintProgress ==
    /\ tpc = "loop"
    /\ tIdx <= Len(db)
    /\ tlog' = Append(tlog, Progress(db[tIdx].file))
    /\ tpc' = "run"
    /\ UNCHANGED <<tdb, cmdLaunches, db, tIdx, fail, texc, texit>>
    /\ UNCHANGED <<fvars, uvars>>

\* Lines 35-37: run the command on the record's file and note a non-zero
\* status.  subprocess.run raises when the command cannot be launched
\* (FileNotFoundError for a missing command; any other OSError ends the run
\* the same way), and nothing catches it.
Invoke ==
    /\ tpc = "run"
    /\ IF ~cmdLaunches
       THEN TidyRaise("FileNotFoundError") /\ UNCHANGED <<tlog, fail, tIdx>>
       ELSE /\ \E rc \in ReturnCodes :
                  /\ tlog' = Append(tlog, Invoked(db[tIdx].file, rc))
                  /\ fail' = IF rc # 0 THEN TRUE ELSE fail
            /\ tIdx' = tIdx + 1
            /\ tpc' = "loop"
            /\ UNCHANGED <<texc, texit>>
    /\ UNCHANGED <<tdb, cmdLaunches, db>>
    /\ UNCHANGED <<fvars, uvars>>

\* Line 39: exit(1 if fail else 0)
TidyExit ==
    /\ tpc = "loop"
    /\ tIdx > Len(db)
    /\ texit' = IF fail THEN 1 ELSE 0
    /\ tpc' = "done"
    /\ UNCHANGED <<tdb, cmdLaunches, db, tIdx, fail, tlog, texc>>
    /\ UNCHANGED <<fvars, uvars>>

NextTidy == TidyLoad \/ PrintProgress \/ Invoke \/ TidyExit

TidyIdle ==
    /\ tdb = [kind |-> "absent", db |-> <<>>]
    /\ cmdLaunches = FALSE
    /\ db = <<>>
    /\ tIdx = 1
    /\ fail = FALSE
    /\ tlog = <<>>
    /\ tpc = "idle"
    /\ texc = ""
    /\ texit = -1

(***************************************************************************)
(* scripts/uploadTag.py ("scripts") and uploadTag.py ("root")              *)
(***************************************************************************)
Variants == {"scripts", "root"}

UploadArgs == [repo : {"slaclab/a", "slaclab/b"},
               tag  : {"v1", "v2"},
               file : {"x.rpm", "y.rpm"}]

\* os.environ.get(...): unset (None), set to the empty string, set to a token.
Tokens == {[set |-> FALSE, value |-> ""],
           [set |-> TRUE,  value |-> ""],
           [set |-> TRUE,  value |-> "ghp"]}

Call(op, ok) == [op |-> op, ok |-> ok]

\* What sys.exit(str) and an uncaught exception leave on stderr.
ExitMessage(text) == [kind |-> "message", text |-> text]
Traceback(e)      == [kind |-> "traceback", text |-> e]

Asset(a) == [repo |-> a.repo, tag |-> a.tag, file |-> a.file]

InitUpload ==
    /\ variant \in Variants
    /\ uargs \in UploadArgs
    /\ token \in Tokens
    /\ upc = "token"
    /\ calls = <<>>
    /\ assets = {}
    /\ ustdout = <<>>
    /\ ustderr = <<>>
    /\ unhandled = FALSE
    /\ uexit = -1

\* sys.exit(text): the text goes to stderr, the exit status is 1.
SysExit(text) ==
    /\ ustderr' = Append(ustderr, ExitMessage(text))
    /\ uexit' = 1
    /\ upc' = "exited"
    /\ UNCHANGED unhandled

\* An exception outside any try: traceback, exit status 1.
Uncaught(e) ==
    /\ ustderr' = Append(ustderr, Traceback(e))
    /\ uexit' = 1
    /\ upc' = "exited"
    /\ unhandled' = TRUE

\* The token test printing its message without leaving the script.
CheckTokenNoExit ==
    /\ upc = "token"
    /\ ustdout' = Append(ustdout, "Logging into GitHub...")
    /\ ustderr' = IF ~token.set
                  THEN Append(ustderr, ExitMessage("Failed to get GitHub token"))
                  ELSE ustderr
    /\ upc' = "repo"
    /\ UNCHANGED <<uexit, unhandled>>
    /\ UNCHANGED <<variant, uargs, token, calls, assets>>
    /\ UNCHANGED <<fvars, tvars>>

\* scripts/uploadTag.py 49-59, uploadTag.py 36-43: print, read the token,
\* leave when it is None; github.Github(token) makes no request.
CheckToken ==
    /\ upc = "token"
    /\ ustdout' = Append(ustdout, "Logging into GitHub...")
    /\ IF ~token.set
       THEN SysExit("Failed to get GitHub token")
       ELSE upc' = "repo" /\ UNCHANGED <<ustderr, uexit, unhandled>>
    /\ UNCHANGED <<variant, uargs, token, calls, assets>>
    /\ UNCHANGED <<fvars, tvars>>

\* scripts/uploadTag.py 63 (inside try), uploadTag.py 44 (before try).
GetRepo ==
    /\ upc = "repo"
    /\ \E ok \in BOOLEAN :
          /\ calls' = Append(calls, Call("get_repo", ok))
          /\ IF ok
             THEN upc' = "release" /\ UNCHANGED <<ustderr, uexit, unhandled>>
             ELSE IF variant = "scripts"
                  THEN SysExit("Failed to find the release or upload the file")
                  ELSE Uncaught("GithubException")
    /\ UNCHANGED <<variant, uargs, token, assets, ustdout>>
    /\ UNCHANGED <<fvars, tvars>>

\* scripts/uploadTag.py 64, uploadTag.py 48: inside try in both.
GetRelease ==
    /\ upc = "release"
    /\ \E ok \in BOOLEAN :
          /\ calls' = Append(calls, Call("get_release", ok))
          /\ IF ok
             THEN upc' = "upload" /\ UNCHANGED <<ustderr, uexit, unhandled>>
             ELSE IF variant = "scripts"
                  THEN SysExit("Failed to find the release or upload the file")
                  ELSE SysExit("Failed to find and download tag")
    /\ UNCHANGED <<variant, uargs, token, assets, ustdout>>
    /\ UNCHANGED <<fvars, tvars>>

\* scripts/uploadTag.py 65-68: upload, confirm; a failure is caught.
UploadAsset ==
    /\ upc = "upload"
    /\ variant = "scripts"
    /\ \E ok \in BOOLEAN :
          /\ calls' = Append(calls, Call("upload_asset", ok))
          /\ IF ok
             THEN /\ assets' = assets \cup {Asset(uargs)}
                  /\ ustdout' = Append(ustdout, "Successfully uploaded")
                  /\ upc' = "exited"
                  /\ uexit' = 0
                  /\ UNCHANGED <<ustderr, unhandled>>
             ELSE /\ SysExit("Failed to find the release or upload the file")
                  /\ UNCHANGED <<assets, ustdout>>
    /\ UNCHANGED <<variant, uargs, token>>
    /\ UNCHANGED <<fvars, tvars>>

\* uploadTag.py 49-52: the name remRel is bound nowhere; evaluating it raises
\* NameError before any request, and "except Exception" turns it into sys.exit.
UploadAssetUnbound ==
    /\ upc = "upload"
    /\ variant = "root"
    /\ SysExit("Failed to find and download tag")
    /\ UNCHANGED <<variant, uargs, token, calls, assets, ustdout>>
    /\ UNCHANGED <<fvars, tvars>>

NextUpload ==
    CheckToken \/ GetRepo \/ GetRelease \/ UploadAsset \/ UploadAssetUnbound

UploadIdle ==
    /\ variant = "scripts"
    /\ uargs = [repo |-> "slaclab/a", tag |-> "v1", file |-> "x.rpm"]
    /\ token = [set |-> FALSE, value |-> ""]
    /\ upc = "idle"
    /\ calls = <<>>
    /\ assets = {}
    /\ ustdout = <<>>
    /\ ustderr = <<>>
    /\ unhandled = FALSE
    /\ uexit = -1

(***************************************************************************)
(* Specifications: one script runs, the others are not started.            *)
(***************************************************************************)
StartFilter == InitFilter /\ TidyIdle /\ UploadIdle
StartTidy   == FilterIdle /\ InitTidy /\ UploadIdle
StartUpload == FilterIdle /\ TidyIdle /\ InitUpload

SpecFilter   == StartFilter /\ [][NextFilter]_vars
SpecRefilter == StartFilter /\ [][NextRefilter]_vars
SpecTidy     == StartTidy /\ [][NextTidy]_vars
SpecUpload   == StartUpload /\ [][NextUpload]_vars


(***************************************************************************)
(* Properties of the compile-database filter.                              *)
(***************************************************************************)
\* The database a finished filter run produced: the rewritten input file
\* with -w, the printed document without.
FilterOutput ==
    IF args_WRITE THEN disk.db ELSE fstdout[Len(fstdout)].db

\* The strip set: the built-in default plus every --strip value.
StripSet ==
    {to_strip[i] : i \in 1..Len(to_strip)} \cup
    {args_strip.values[i] : i \in 1..Len(args_strip.values)}

\* The supported-flag set the compiler's help text yields.
SupportedSet == {supportedargs[i] : i \in 1..Len(supportedargs)}

\* The part of x before its first '=' (its flag name).
FlagName(x) ==
    IF \E i \in 1..Len(x) : x[i] = 61
    THEN SubSeq(x, 1, (CHOOSE i \in 1..Len(x) :
                          x[i] = 61 /\ \A j \in 1..(i - 1) : x[j] # 61) - 1)
    ELSE x

\* x has a first whitespace-delimited token, and it is in the strip set.
FirstTokenStripped(x) ==
    \E b \in 1..Len(x) : \E e \in b..Len(x) :
        /\ \A j \in 1..(b - 1) : x[j] \in Whitespace
        /\ \A j \in b..e : x[j] \notin Whitespace
        /\ e = Len(x) \/ x[e + 1] \in Whitespace
        /\ SubSeq(x, b, e) \in StripSet

\* x begins with '-I', '-D' or '-U'.
PreservedPrefix(x) ==
    Len(x) >= 2 /\ x[1] = 45 /\ x[2] \in {73, 68, 85}

\* The retention predicate of the filter's contract.
ContractRetains(x) ==
    /\ \/ Len(x) = 0
       \/ x[1] # 45
       \/ FlagName(x) \in SupportedSet
       \/ PreservedPrefix(x)
    /\ ~FirstTokenStripped(x)

\* x occurs in the argument sequence a.
Occurs(x, a) == \E i \in 1..Len(a) : a[i] = x

\* C1: a filter run whose input loaded and whose compiler was queried
\* completes for every argument string, and each output record's arguments
\* are the input record's arguments restricted, in order, to exactly those
\* the contract's predicate retains.
C1_RetainsExactlyAndCompletes ==
    /\ fexc # "IndexError"
    /\ fpc = "done" =>
          /\ Len(FilterOutput) = Len(input.db)
          /\ \A r \in 1..Len(input.db) :
                /\ FilterOutput[r].file = input.db[r].file
                /\ FilterOutput[r].arguments =
                       SelectSeq(input.db[r].arguments, ContractRetains)

\* C2: no argument whose flag name (the part before '=') is in the strip set
\* is in the output record, whatever the supported-flag set and whatever
\* '=value' suffix it carries.
C2_StripSetFlagNamesAbsent ==
    fpc = "done" =>
        \A r \in 1..Len(input.db) :
            \A i \in 1..Len(input.db[r].arguments) :
                LET x == input.db[r].arguments[i]
                IN  FlagName(x) \in StripSet =>
                        ~Occurs(x, FilterOutput[r].arguments)

\* C3 as stated: every argument beginning with '-I', '-D' or '-U' is in the
\* output record, for every supported-flag set and every --strip value.
C3_PreservedAlwaysRetained ==
    fpc = "done" =>
        \A r \in 1..Len(input.db) :
            SelectSeq(FilterOutput[r].arguments, PreservedPrefix) =
            SelectSeq(input.db[r].arguments, PreservedPrefix)

PreservedNotStripped(x) == PreservedPrefix(x) /\ ~FirstTokenStripped(x)

\* C3 amended: every argument beginning with '-I', '-D' or '-U' whose first
\* whitespace-delimited token is not in the strip set is in the output
\* record, in its place among such arguments, whether or not its flag name
\* is in the supported-flag set.
C3_PreservedRetainedUnlessStripped ==
    fpc = "done" =>
        \A r \in 1..Len(input.db) :
            SelectSeq(FilterOutput[r].arguments, PreservedNotStripped) =
            SelectSeq(input.db[r].arguments, PreservedNotStripped)

\* A finished run, with a --strip value given, kept an include/define/undefine
\* argument whose flag name the compiler does not list.
C3_Witness ==
    /\ fpc = "done"
    /\ args_strip.values # <<>>
    /\ \E r \in 1..Len(input.db) :
          \E i \in 1..Len(input.db[r].arguments) :
              LET x == input.db[r].arguments[i]
              IN  /\ PreservedPrefix(x)
                  /\ FlagName(x) \notin SupportedSet
                  /\ Occurs(x, FilterOutput[r].arguments)

\* C4: filtering the database a filter run produced, with the same supported
\* flags and strip set, completes and yields that same database.
C4_FilterIdempotent ==
    frun = 2 =>
        /\ fpc # "raised"
        /\ fpc = "done" => FilterOutput = firstOut

\* The second run finished on a database from which the first run had
\* removed arguments and in which it had kept some.
C4_Witness ==
    /\ frun = 2
    /\ fpc = "done"
    /\ firstOut # input.db
    /\ \E r \in 1..Len(firstOut) : Len(firstOut[r].arguments) >= 2

\* C5: a run whose input cannot be loaded, or whose compiler cannot be
\* launched, exits non-zero or prints no help text, prints no filtered
\* database and leaves the input file as it was.
C5_FailedRunNoArtifact ==
    LET failed == \/ input.kind # "json"
                  \/ ~clang.launches
                  \/ clang.rc # 0
                  \/ clang.out = <<>>
    IN  failed =>
            /\ \A k \in 1..Len(fstdout) : fstdout[k].kind # "json"
            /\ disk = input

(***************************************************************************)
(* Properties of the batch runner.                                         *)
(***************************************************************************)
\* Some invocation made so far returned a non-zero status.
AnyFailed == \E k \in 1..Len(tlog) : tlog[k].kind = "run" /\ tlog[k].rc # 0

\* The run over a loaded database has ended.
TidyEnded == tdb.kind = "json" /\ tpc \in {"done", "raised"}

\* C6: the runner's progress lines and invocations alternate, record by
\* record in database order, each record's progress line right before its
\* invocation; whatever becomes of the invocations, a failing one does not
\* keep the later records from being processed: the run over a database of n
\* records ends with n progress lines printed and n invocations made.
C6_OneInvocationPerRecord ==
    /\ Len(tlog) <= 2 * Len(tdb.db)
    /\ \A k \in 1..Len(tlog) :
          IF k % 2 = 1
          THEN /\ tlog[k].kind = "progress"
               /\ tlog[k].file = tdb.db[(k + 1) \div 2].file
          ELSE /\ tlog[k].kind = "run"
               /\ tlog[k].file = tdb.db[k \div 2].file
    /\ TidyEnded => Len(tlog) = 2 * Len(tdb.db)

\* C7: the failure flag is set exactly when some invocation so far returned
\* non-zero (so a later success never clears it), and the run over a database
\* ends with exit status 1 if some invocation returned non-zero and with 0
\* otherwise.
C7_ExitStatusAggregates ==
    /\ tpc # "idle" => (fail <=> AnyFailed)
    /\ TidyEnded => texit = (IF AnyFailed THEN 1 ELSE 0)

(***************************************************************************)
(* Properties of the uploader.                                             *)
(***************************************************************************)
\* C8: when a request fails, the uploader has printed exactly one failure
\* message, exits non-zero, lets no exception escape, and makes no request
\* after the failing one.
C8_FailureCaughtAndReported ==
    /\ \A k \in 1..(Len(calls) - 1) : calls[k].ok
    /\ (upc = "exited" /\ \E k \in 1..Len(calls) : ~calls[k].ok) =>
          /\ ~unhandled
          /\ Len(ustderr) = 1
          /\ ustderr[1].kind = "message"
          /\ uexit # 0

\* C9: with the token set and no request failing, the finished run has
\* attached the file to the release, printed the confirmation and exited 0.
C9_SuccessUploadsAndConfirms ==
    (upc = "exited" /\ token.set /\ \A k \in 1..Len(calls) : calls[k].ok) =>
        /\ Asset(uargs) \in assets
        /\ \E k \in 1..Len(ustdout) : ustdout[k] = "Successfully uploaded"
        /\ uexit = 0

\* C10: with the token variable unset, the uploader makes no request at all
\* and its only step is the exit with a non-zero status.
C10_NoTokenNoNetwork ==
    (upc # "idle" /\ ~token.set) =>
        /\ calls = <<>>
        /\ assets = {}
        /\ upc \in {"token", "exited"}
        /\ upc = "exited" => uexit # 0

\* The uploader has exited for want of a token.
C10_Witness ==
    /\ ~token.set
    /\ upc = "exited"
    /\ uexit = 1
    /\ ustderr # <<>>

=============================================================================
